---- MODULE Spec2Model ----
(***************************************************************************)
(* Model of src/mcmeta/src/download/mojang.rs: the three download          *)
(* operations load_manifest, load_version_manifest and load_zipped_version *)
(* as step machines over the remote server's answer, the temporary         *)
(* directory namespace and the files in it.                                *)
(***************************************************************************)
EXTENDS Naturals, Sequences, FiniteSets, TLC

VARIABLES st, remote, fs

vars == <<st, remote, fs>>

(* ------------------------------ bounds -------------------------------- *)

\* number of invocations that may run concurrently
NInv == 2

\* largest number of entries of a downloaded archive
MaxEntries == 2

Inv == 1 .. NInv

(* ------------------------- the data that flows ------------------------ *)

\* Text handed to serde_json: a sequence of tokens.
Texts ==
  { <<>>,
    <<"{", "id">>,
    <<"{", "}">>,
    <<"{", "id", "}">>,
    <<"{", "latest", "}">>,
    <<"{", "id", "latest", "}">> }

\* What String::from_utf8_lossy makes of bytes that are no text.
Garbage == <<"PK">>

\* zfile.name(): a sequence of characters.
Names ==
  { <<"v", ".", "j", "s", "o", "n">>,
    <<"w", ".", "j", "s", "o", "n">>,
    <<"v", ".", "J", "S", "O", "N">>,
    <<"r", ".", "t", "x", "t">> }

\* str::ends_with
ends_with(s, suf) ==
  /\ Len(s) >= Len(suf)
  /\ SubSeq(s, Len(s) - Len(suf) + 1, Len(s)) = suf

JsonSuffix == <<".", "j", "s", "o", "n">>

\* One entry of a zip archive: its name, whether by_index can open it,
\* whether its bytes read as UTF-8 text, and that text.
Entry(n, o, u, t) == [name |-> n, open |-> o, utf8 |-> u, text |-> t]

JsonEntries ==
  { Entry(n, TRUE, TRUE, t) : n \in {m \in Names : ends_with(m, JsonSuffix)},
                              t \in Texts \ {<<"{", "latest", "}">>} }
  \cup { Entry(n, TRUE, FALSE, <<>>) : n \in {m \in Names : ends_with(m, JsonSuffix)} }
  \cup { Entry(n, FALSE, TRUE, <<>>) : n \in {m \in Names : ends_with(m, JsonSuffix)} }

OtherEntries ==
  { Entry(n, TRUE, TRUE, t) : n \in {m \in Names : ~ends_with(m, JsonSuffix)},
                              t \in {<<"{", "id">>, <<"{", "id", "}">>} }
  \cup { Entry(n, FALSE, TRUE, <<>>) : n \in {m \in Names : ~ends_with(m, JsonSuffix)} }

Entries == JsonEntries \cup OtherEntries

RECURSIVE SeqsUpTo(_, _)
SeqsUpTo(S, n) ==
  IF n = 0 THEN { <<>> }
  ELSE LET shorter == SeqsUpTo(S, n - 1)
       IN  shorter \cup { Append(q, x) : q \in {r \in shorter : Len(r) = n - 1}, x \in S }

\* A response body: either text bytes or the bytes of a zip archive.
TextBody(t) == [zip |-> FALSE, text |-> t, entries |-> <<>>]
ZipBody(es) == [zip |-> TRUE, text |-> <<>>, entries |-> es]
EmptyBody == TextBody(<<>>)

\* The archives: up to MaxEntries entries, no two with the same name.
Archives ==
  { es \in SeqsUpTo(Entries, MaxEntries) :
      \A j, k \in DOMAIN es : j # k => es[j].name # es[k].name }

Bodies == { TextBody(t) : t \in Texts } \cup { ZipBody(es) : es \in Archives }

\* Response::text(): the body decoded as text, lossily.
TextOf(b) == IF b.zip THEN Garbage ELSE b.text

Statuses == {200, 304, 404}

\* The path of the resolved response URL, as its segments.
Urls == { <<"v", "a.zip">>, <<"v", "">> }

Ops == {"load_manifest", "load_version_manifest", "load_zipped_version"}

(* ------------------------------ results ------------------------------- *)

NoResult == [kind |-> "None", err |-> "", doc |-> {}, raw |-> <<>>]
Ok(d) == [kind |-> "Ok", err |-> "", doc |-> d, raw |-> <<>>]
Err(e) == [kind |-> "Err", err |-> e, doc |-> {}, raw |-> <<>>]

NoDir == 0
DirNames == 1 .. NInv
NoPath == <<NoDir, "">>

\* A response: its status, its body and the path of its resolved URL.
Responses == [status : Statuses, body : Bodies, url : Urls]
NoResponse == [status |-> 0, body |-> EmptyBody, url |-> <<>>]

\* The locals of one invocation, before its first step.
Fresh(o) ==
  [ op            |-> o,
    pc            |-> IF o = "load_manifest" THEN "config" ELSE "send",
    from          |-> "",
    file_response |-> NoResponse,
    body          |-> <<>>,
    tmp_dir       |-> NoDir,
    dest_path     |-> NoPath,
    wfile         |-> FALSE,
    content       |-> EmptyBody,
    rfile         |-> FALSE,
    archive       |-> <<>>,
    i             |-> 0,
    manifest      |-> [some |-> FALSE, doc |-> {}],
    result        |-> NoResult,
    requests      |-> 0,
    parsed        |-> <<>>,
    validated     |-> FALSE,
    made          |-> 0 ]

Idle == [Fresh("none") EXCEPT !.pc = "idle"]

\* The filesystem: the temporary directories that exist (each with the
\* invocation that made it) and the files in them.
NoFs == [dirs |-> [x \in {} |-> 0], files |-> [x \in {} |-> 0]]

(* --------------------------- pure functions --------------------------- *)

\* serde_json::from_str: the text is a document when it is one brace-framed
\* object; the document is the set of fields it holds.
IsJson(t) ==
  /\ Len(t) >= 2
  /\ t[1] = "{"
  /\ t[Len(t)] = "}"
  /\ \A k \in 2 .. Len(t) - 1 : t[k] \notin {"{", "}"}

from_str(t) ==
  IF IsJson(t) THEN [ok |-> TRUE, doc |-> {t[k] : k \in 2 .. Len(t) - 1}]
  ELSE [ok |-> FALSE, doc |-> {}]

\* The field the schema of an operation's document requires.
Required(o) == IF o = "load_manifest" THEN "latest" ELSE "id"

\* Validate::validate
validate(o, d) == Required(o) \in d

\* MetadataError::from_json_err(err, body): the malformed-body error,
\* which retains the raw body it is given.
from_json_err(b) == [kind |-> "Err", err |-> "BadJson", doc |-> {}, raw |-> b]

\* Mutant of ParseBody: the error is built from another string than the one
\* that was parsed.
ParseBodyNoContext(t) == IF from_str(t).ok THEN Ok(from_str(t).doc) ELSE from_json_err(<<>>)

\* serde_json::from_str(&body).map_err(|err| from_json_err(err, &body))
ParseBody(t) == IF from_str(t).ok THEN Ok(from_str(t).doc) ELSE from_json_err(t)

\* Mutant of ValidateResult: the validation is left out.
ValidateResultUnchecked(o, d) == Ok(d)

\* manifest.validate()?; Ok(manifest)
ValidateResult(o, d) == IF validate(o, d) THEN Ok(d) ELSE Err("Validation")

\* Response::error_for_status: an error for a client or server error status.
IsErrorStatus(s) == s >= 400 /\ s <= 599

\* Mutant of FileName: an empty last segment is used as it is.
FileNameNoFallback(u) == IF Len(u) > 0 THEN u[Len(u)] ELSE "tmp.zip"

\* The file name: the last path segment of the response URL, when there is
\* one and it is not empty.
FileName(u) == IF Len(u) > 0 /\ u[Len(u)] # "" THEN u[Len(u)] ELSE "tmp.zip"

\* Mutant of DestPath: the file is put in one fixed directory.
SharedDestPath(d, fname) == <<1, fname>>

\* tmp_dir.path().join(fname)
DestPath(d, fname) == <<d, fname>>

\* Mutant of DropTempDir: the directory is kept.
KeepTempDir(d, f) == f

\* Drop of TempDir: the directory and everything in it are removed.
DropTempDir(d, f) ==
  [ dirs  |-> [x \in DOMAIN f.dirs \ {d} |-> f.dirs[x]],
    files |-> [p \in {q \in DOMAIN f.files : q[1] # d} |-> f.files[p]] ]

(* ------------------------------ the steps ----------------------------- *)

\* The invocation ends: with `?`, with the final Ok or by a panic that
\* unwinds, at the step `from`. Its locals are dropped: the handles are
\* closed and the temporary directory, if it made one, is removed.
Exit(i, s, pcv, res) ==
  /\ st' = [st EXCEPT ![i] = [s EXCEPT !.pc = pcv, !.from = s.pc, !.result = res,
                                        !.body = <<>>, !.tmp_dir = NoDir,
                                        !.dest_path = NoPath, !.wfile = FALSE,
                                        !.content = EmptyBody, !.rfile = FALSE,
                                        !.archive = <<>>, !.i = 0,
                                        !.manifest = [some |-> FALSE, doc |-> {}]]]
  /\ fs' = IF s.tmp_dir = NoDir THEN fs ELSE DropTempDir(s.tmp_dir, fs)
  /\ UNCHANGED remote

\* An intermediate step that touches no file.
Step(i, s) ==
  /\ st' = [st EXCEPT ![i] = s]
  /\ UNCHANGED <<remote, fs>>

\* DownloadConfig::from_config()?
FromConfig(i) ==
  /\ st[i].pc = "config"
  /\ \/ Step(i, [st[i] EXCEPT !.pc = "send"])
     \/ Exit(i, st[i], "returned", Err("Config"))

\* Mutant of Send: a failed request is sent once more.
SendRetrying(i) ==
  /\ st[i].pc = "send"
  /\ LET s == [st[i] EXCEPT !.requests = @ + 1]
     IN  \/ Step(i, [s EXCEPT !.file_response = remote[i], !.pc = "status"])
         \/ IF s.requests < 2 THEN Step(i, s) ELSE Exit(i, s, "returned", Err("Transport"))

\* client.get(url).send().await?
Send(i) ==
  /\ st[i].pc = "send"
  /\ LET s == [st[i] EXCEPT !.requests = @ + 1]
     IN  \/ Step(i, [s EXCEPT !.file_response = remote[i], !.pc = "status"])
         \/ Exit(i, s, "returned", Err("Transport"))

\* .error_for_status()?
ErrorForStatus(i) ==
  /\ st[i].pc = "status"
  /\ IF IsErrorStatus(st[i].file_response.status)
     THEN Exit(i, st[i], "returned", Err("Status"))
     ELSE Step(i, [st[i] EXCEPT !.pc = IF st[i].op = "load_zipped_version"
                                        THEN "tmpdir" ELSE "text"])

\* .text().await?
Text(i) ==
  /\ st[i].pc = "text"
  /\ \/ Step(i, [st[i] EXCEPT !.body = TextOf(st[i].file_response.body), !.pc = "parse"])
     \/ Exit(i, st[i], "returned", Err("Transport"))

\* Mutant of FromStr: a body that fails to parse is validated all the same.
FromStrLenient(i) ==
  /\ st[i].pc = "parse"
  /\ LET s == [st[i] EXCEPT !.parsed = Append(@, st[i].body)]
         r == ParseBody(st[i].body)
     IN  Step(i, [s EXCEPT !.manifest = [some |-> TRUE, doc |-> r.doc], !.pc = "validate"])

\* serde_json::from_str(&body).map_err(...)?
FromStr(i) ==
  /\ st[i].pc = "parse"
  /\ LET s == [st[i] EXCEPT !.parsed = Append(@, st[i].body)]
         r == ParseBody(st[i].body)
     IN  IF r.kind = "Ok"
         THEN Step(i, [s EXCEPT !.manifest = [some |-> TRUE, doc |-> r.doc], !.pc = "validate"])
         ELSE Exit(i, s, "returned", r)

\* manifest.validate()?; Ok(manifest)
Validate(i) ==
  /\ st[i].pc = "validate"
  /\ Exit(i, [st[i] EXCEPT !.validated = TRUE], "returned",
          ValidateResult(st[i].op, st[i].manifest.doc))

\* Mutant of TempDirNew: the directory name is not checked to be new.
TempDirNewAny(i) ==
  /\ st[i].pc = "tmpdir"
  /\ \/ \E d \in DirNames :
          /\ fs' = [fs EXCEPT !.dirs = (d :> i) @@ @]
          /\ st' = [st EXCEPT ![i] = [@ EXCEPT !.tmp_dir = d, !.made = @ + 1,
                      !.dest_path = DestPath(d, FileName(st[i].file_response.url)),
                      !.pc = "create"]]
          /\ UNCHANGED remote
     \/ Exit(i, st[i], "returned", Err("Io"))

\* TempDir::new("mcmeta_mojang_zip")? and the destination path in it
TempDirNew(i) ==
  /\ st[i].pc = "tmpdir"
  /\ \/ \E d \in DirNames \ DOMAIN fs.dirs :
          /\ fs' = [fs EXCEPT !.dirs = (d :> i) @@ @]
          /\ st' = [st EXCEPT ![i] = [@ EXCEPT !.tmp_dir = d, !.made = @ + 1,
                      !.dest_path = DestPath(d, FileName(st[i].file_response.url)),
                      !.pc = "create"]]
          /\ UNCHANGED remote
     \/ Exit(i, st[i], "returned", Err("Io"))

\* Mutant of FileCreate: a second file is created beside the archive.
FileCreateTwo(i) ==
  /\ st[i].pc = "create"
  /\ \/ /\ st[i].dest_path[1] \in DOMAIN fs.dirs
        /\ fs' = [fs EXCEPT !.files =
                    (st[i].dest_path :> [data |-> EmptyBody, full |-> FALSE])
                    @@ (<<st[i].dest_path[1], "part">> :> [data |-> EmptyBody, full |-> FALSE])
                    @@ @]
        /\ st' = [st EXCEPT ![i] = [@ EXCEPT !.wfile = TRUE, !.pc = "bytes"]]
        /\ UNCHANGED remote
     \/ Exit(i, st[i], "returned", Err("Io"))

\* std::fs::File::create(&dest_path)?
FileCreate(i) ==
  /\ st[i].pc = "create"
  /\ \/ /\ st[i].dest_path[1] \in DOMAIN fs.dirs
        /\ fs' = [fs EXCEPT !.files = (st[i].dest_path :> [data |-> EmptyBody, full |-> FALSE]) @@ @]
        /\ st' = [st EXCEPT ![i] = [@ EXCEPT !.wfile = TRUE, !.pc = "bytes"]]
        /\ UNCHANGED remote
     \/ Exit(i, st[i], "returned", Err("Io"))

\* file_response.bytes().await?
Bytes(i) ==
  /\ st[i].pc = "bytes"
  /\ \/ Step(i, [st[i] EXCEPT !.content = st[i].file_response.body, !.pc = "copy"])
     \/ Exit(i, st[i], "returned", Err("Transport"))

\* Mutant of Copy: the write handle outlives the block.
CopyKeepOpen(i) ==
  /\ st[i].pc = "copy"
  /\ \/ /\ fs' = IF st[i].dest_path \in DOMAIN fs.files
                 THEN [fs EXCEPT !.files[st[i].dest_path] = [data |-> st[i].content, full |-> TRUE]]
                 ELSE fs
        /\ st' = [st EXCEPT ![i] = [@ EXCEPT !.pc = "open"]]
        /\ UNCHANGED remote
     \/ Exit(i, st[i], "returned", Err("Io"))

\* std::io::copy(&mut content, &mut file)? and the end of the block, which
\* flushes and closes the file
Copy(i) ==
  /\ st[i].pc = "copy"
  /\ \/ /\ fs' = IF st[i].dest_path \in DOMAIN fs.files
                 THEN [fs EXCEPT !.files[st[i].dest_path] = [data |-> st[i].content, full |-> TRUE]]
                 ELSE fs
        /\ st' = [st EXCEPT ![i] = [@ EXCEPT !.wfile = FALSE, !.pc = "open"]]
        /\ UNCHANGED remote
     \/ Exit(i, st[i], "returned", Err("Io"))

\* std::fs::File::open(&dest_path)?
FileOpen(i) ==
  /\ st[i].pc = "open"
  /\ \/ /\ st[i].dest_path \in DOMAIN fs.files
        /\ Step(i, [st[i] EXCEPT !.rfile = TRUE, !.pc = "zipnew"])
     \/ Exit(i, st[i], "returned", Err("Io"))

\* zip::ZipArchive::new(file)?
ZipArchiveNew(i) ==
  /\ st[i].pc = "zipnew"
  /\ \/ /\ st[i].dest_path \in DOMAIN fs.files
        /\ fs.files[st[i].dest_path].full
        /\ fs.files[st[i].dest_path].data.zip
        /\ Step(i, [st[i] EXCEPT !.archive = fs.files[st[i].dest_path].data.entries,
                                 !.i = 0, !.pc = "loop"])
     \/ Exit(i, st[i], "returned", Err("Zip"))

\* Mutant of LoopBody: an entry that fails to parse is skipped and the
\* loop goes on to the next one.
LoopBodyFallback(i) ==
  /\ st[i].pc = "loop"
  /\ st[i].i < Len(st[i].archive)
  /\ LET zfile == st[i].archive[st[i].i + 1]
         s == [st[i] EXCEPT !.parsed = Append(@, zfile.text)]
         r == ParseBody(zfile.text)
     IN  IF ~zfile.open
         THEN Exit(i, st[i], "returned", Err("Zip"))
         ELSE IF ~ends_with(zfile.name, JsonSuffix)
         THEN Step(i, [st[i] EXCEPT !.i = @ + 1])
         ELSE IF ~zfile.utf8
         THEN Exit(i, st[i], "panicked", NoResult)
         ELSE IF r.kind = "Ok"
         THEN Step(i, [s EXCEPT !.manifest = [some |-> TRUE, doc |-> r.doc], !.i = @ + 1])
         ELSE Step(i, [s EXCEPT !.i = @ + 1])

\* One turn of `for i in 0..archive.len()`
LoopBody(i) ==
  /\ st[i].pc = "loop"
  /\ st[i].i < Len(st[i].archive)
  /\ LET zfile == st[i].archive[st[i].i + 1]
         s == [st[i] EXCEPT !.parsed = Append(@, zfile.text)]
         r == ParseBody(zfile.text)
     IN  IF ~zfile.open
         THEN Exit(i, st[i], "returned", Err("Zip"))
         ELSE IF ~ends_with(zfile.name, JsonSuffix)
         THEN Step(i, [st[i] EXCEPT !.i = @ + 1])
         ELSE IF ~zfile.utf8
         THEN Exit(i, st[i], "panicked", NoResult)
         ELSE IF r.kind = "Ok"
         THEN Step(i, [s EXCEPT !.manifest = [some |-> TRUE, doc |-> r.doc], !.i = @ + 1])
         ELSE Exit(i, s, "returned", r)

\* Ok(manifest.ok_or(anyhow!("Unable to find version manifest"))?)
OkOr(i) ==
  /\ st[i].pc = "loop"
  /\ st[i].i = Len(st[i].archive)
  /\ IF st[i].manifest.some
     THEN Exit(i, st[i], "returned", Ok(st[i].manifest.doc))
     ELSE Exit(i, st[i], "returned", Err("NotFound"))

\* The steps at which an invocation is suspended: the `.await`s.
Suspended(i) == st[i].pc \in {"send", "text", "bytes"}

\* Mutant of Cancel: the dropped future leaves its directory behind.
CancelLeaking(i) ==
  /\ Suspended(i)
  /\ st' = [st EXCEPT ![i].pc = "cancelled", ![i].from = st[i].pc]
  /\ UNCHANGED <<remote, fs>>

\* The caller drops the future while it is suspended at an `.await`: the
\* invocation goes no further and its locals are dropped.
Cancel(i) ==
  /\ Suspended(i)
  /\ Exit(i, st[i], "cancelled", NoResult)

(* --------------------------- specifications --------------------------- *)

\* The responses an operation is tried against: an archive download
\* against every response, a document download against every text body
\* and an archive.
InputsFor(o) ==
  IF o = "load_zipped_version" THEN Responses
  ELSE [status : Statuses,
        body : {TextBody(t) : t \in Texts} \cup {ZipBody(<<>>)},
        url : {<<"v", "">>}]

\* One invocation of any of the three operations.
Init ==
  \E o \in Ops : \E r \in InputsFor(o) :
    /\ st = [i \in Inv |-> IF i = 1 THEN Fresh(o) ELSE Idle]
    /\ remote = [i \in Inv |-> IF i = 1 THEN r ELSE NoResponse]
    /\ fs = NoFs

Next ==
  \E i \in Inv :
    \/ FromConfig(i)
    \/ Send(i)
    \/ ErrorForStatus(i)
    \/ Text(i)
    \/ FromStr(i)
    \/ Validate(i)
    \/ TempDirNew(i)
    \/ FileCreate(i)
    \/ Bytes(i)
    \/ Copy(i)
    \/ FileOpen(i)
    \/ ZipArchiveNew(i)
    \/ LoopBody(i)
    \/ OkOr(i)
    \/ Cancel(i)

Spec == Init /\ [][Next]_vars

\* The archives and documents the concurrent invocations are given.
ConcBodies ==
  { ZipBody(<<Entry(<<"v", ".", "j", "s", "o", "n">>, TRUE, TRUE, <<"{", "id", "}">>)>>),
    ZipBody(<<Entry(<<"r", ".", "t", "x", "t">>, TRUE, TRUE, <<"{", "id">>),
              Entry(<<"v", ".", "j", "s", "o", "n">>, TRUE, TRUE, <<"{", "id", "latest", "}">>)>>),
    ZipBody(<<Entry(<<"v", ".", "j", "s", "o", "n">>, TRUE, FALSE, <<>>)>>) }

ConcInputs ==
  { [op |-> "load_zipped_version", resp |-> [status |-> 200, body |-> b, url |-> <<"v", "a.zip">>]] :
      b \in ConcBodies }
  \cup { [op |-> "load_manifest",
          resp |-> [status |-> 200, body |-> TextBody(<<"{", "latest", "}">>), url |-> <<"v", "">>]] }

\* NInv invocations started together, each against its own response.
InitConc ==
  \E f \in [Inv -> ConcInputs] :
    /\ st = [i \in Inv |-> Fresh(f[i].op)]
    /\ remote = [i \in Inv |-> f[i].resp]
    /\ fs = NoFs

SpecConc == InitConc /\ [][Next]_vars

(* ------------------------------- claims ------------------------------- *)

Done(i) == st[i].pc \in {"returned", "panicked"}

Zipped(i) == st[i].op = "load_zipped_version"

\* The response was received: send() succeeded.
Received(i) == st[i].file_response.status # 0

\* The entries of the archive invocation i downloads.
ArchiveOf(i) == remote[i].body.entries

IsJsonName(e) == ends_with(e.name, JsonSuffix)

\* C1: once an invocation of load_zipped_version has ended, on success, on
\* any error and on the unwinding panic, no temporary directory it made and
\* no file in such a directory exists.
C1_TempDirRemoved ==
  \A i \in Inv :
    Done(i) =>
      /\ \A d \in DOMAIN fs.dirs : fs.dirs[d] # i
      /\ \A p \in DOMAIN fs.files : p[1] \in DOMAIN fs.dirs /\ fs.dirs[p[1]] # i

\* C1 witness: an invocation that made its directory and wrote the archive
\* has returned the parse error of an entry.
C1_Witness ==
  \E i \in Inv :
    /\ st[i].pc = "returned" /\ st[i].made = 1 /\ st[i].from = "loop"
    /\ st[i].result.err = "BadJson"

\* C2: the document load_zipped_version returns is the one parsed from the
\* first entry, in archive order, whose name ends with ".json".
C2_FirstJsonWins ==
  \A i \in Inv :
    (Zipped(i) /\ st[i].pc = "returned" /\ st[i].result.kind = "Ok") =>
      \E k \in DOMAIN ArchiveOf(i) :
        /\ IsJsonName(ArchiveOf(i)[k])
        /\ \A j \in 1 .. k - 1 : ~IsJsonName(ArchiveOf(i)[j])
        /\ st[i].result.doc = from_str(ArchiveOf(i)[k].text).doc

\* C3: a value returned successfully by any operation was validated and is
\* valid for the operation's schema.
C3_ReturnedValidated ==
  \A i \in Inv :
    (st[i].pc = "returned" /\ st[i].result.kind = "Ok") =>
      st[i].validated /\ validate(st[i].op, st[i].result.doc)

\* C4: an invocation that received a response whose status is outside
\* 200-299 goes no further than the status check: it fails with the status
\* error, nothing is parsed and no directory is made.
C4_NonSuccessStatusFails ==
  \A i \in Inv :
    (Received(i) /\ ~(st[i].file_response.status \in 200 .. 299)) =>
      /\ \/ st[i].pc = "status"
         \/ /\ st[i].pc = "returned"
            /\ st[i].result.kind = "Err" /\ st[i].result.err = "Status"
      /\ st[i].parsed = <<>>
      /\ st[i].made = 0

\* C5: whenever a text handed to the parser is not a document, the
\* operation has returned the malformed-body error whose raw body is that
\* text; for the two document downloads it is the response body as text.
C5_MalformedKeepsRaw ==
  \A i \in Inv :
    /\ \A k \in DOMAIN st[i].parsed :
         ~from_str(st[i].parsed[k]).ok =>
           /\ st[i].pc = "returned"
           /\ st[i].result.kind = "Err" /\ st[i].result.err = "BadJson"
           /\ st[i].result.raw = st[i].parsed[k]
    /\ (st[i].result.err = "BadJson" /\ ~Zipped(i)) =>
         st[i].result.raw = TextOf(remote[i].body)
    /\ (st[i].result.err = "BadJson" /\ Zipped(i)) =>
         \E k \in DOMAIN ArchiveOf(i) :
           IsJsonName(ArchiveOf(i)[k]) /\ st[i].result.raw = ArchiveOf(i)[k].text

\* C5 witness: a document download has returned the malformed-body error
\* for a non-empty body.
C5_Witness ==
  \E i \in Inv :
    /\ ~Zipped(i) /\ st[i].pc = "returned" /\ st[i].result.err = "BadJson"
    /\ st[i].result.raw = <<"{", "id">>

\* C6: load_manifest and load_version_manifest, given a body that parses
\* and is not valid, fail with the validation error, not with the
\* malformed-body error.
C6_InvalidIsValidationError ==
  \A i \in Inv :
    (/\ ~Zipped(i) /\ Done(i) /\ st[i].parsed # <<>>
     /\ from_str(st[i].parsed[1]).ok
     /\ ~validate(st[i].op, from_str(st[i].parsed[1]).doc)) =>
      /\ st[i].pc = "returned"
      /\ st[i].result.kind = "Err" /\ st[i].result.err = "Validation"

\* C6 witness: load_manifest has returned for a body that parses and lacks
\* the required field.
C6_Witness ==
  \E i \in Inv :
    /\ st[i].op = "load_manifest" /\ st[i].pc = "returned"
    /\ st[i].parsed = << <<"{", "id", "}">> >>
    /\ st[i].result.err = "Validation"

\* C7: when the archive was opened and no entry name ends with ".json",
\* load_zipped_version fails with the "not found" error.
C7_NoJsonNotFound ==
  \A i \in Inv :
    (/\ Zipped(i) /\ Done(i) /\ st[i].from = "loop"
     /\ \A k \in DOMAIN ArchiveOf(i) : ~IsJsonName(ArchiveOf(i)[k])) =>
      /\ st[i].pc = "returned"
      /\ st[i].result.kind = "Err" /\ st[i].result.err = "NotFound"

\* C8: among concurrent invocations, one that returns a document returns
\* the document of a ".json" entry of its own archive, one that returns the
\* malformed-body error returns the text of an entry of its own archive,
\* and once all have ended no temporary directory or file is left.
C8_ConcurrentIsolation ==
  /\ \A i \in Inv :
       (Zipped(i) /\ st[i].pc = "returned") =>
         /\ st[i].result.kind = "Ok" =>
              \E k \in DOMAIN ArchiveOf(i) :
                /\ IsJsonName(ArchiveOf(i)[k]) /\ ArchiveOf(i)[k].utf8
                /\ from_str(ArchiveOf(i)[k].text).ok
                /\ st[i].result.doc = from_str(ArchiveOf(i)[k].text).doc
         /\ st[i].result.err = "BadJson" =>
              \E k \in DOMAIN ArchiveOf(i) :
                IsJsonName(ArchiveOf(i)[k]) /\ st[i].result.raw = ArchiveOf(i)[k].text
  /\ (\A i \in Inv : Done(i)) => DOMAIN fs.dirs = {} /\ DOMAIN fs.files = {}

\* C8 witness: all invocations have ended, two of them archive downloads
\* that wrote their files, one returning its document and one failing.
C8_Witness ==
  /\ \A i \in Inv : Done(i)
  /\ \E i, j \in Inv :
       /\ i # j /\ Zipped(i) /\ Zipped(j)
       /\ st[i].made = 1 /\ st[j].made = 1
       /\ st[i].result.kind = "Ok" /\ st[i].result.doc = {"id", "latest"}
       /\ st[j].from = "loop" /\ st[j].result.kind # "Ok"

\* C9: every failure ends the operation with a returned error value.
C9_FailureReturnsError ==
  \A i \in Inv :
    Done(i) => st[i].pc = "returned" /\ st[i].result.kind \in {"Ok", "Err"}

\* C10 as stated: every invocation that has ended sent exactly one request.
C10_ExactlyOneRequest ==
  \A i \in Inv : Done(i) => st[i].requests = 1

\* C10 amended: no invocation sends more than one request, and one that has
\* ended sent exactly one unless it is load_manifest failing to load its
\* configuration.
C10_AtMostOneRequest ==
  \A i \in Inv :
    /\ st[i].requests <= 1
    /\ (Done(i) /\ st[i].from # "config") => st[i].requests = 1

\* C10 witness: an invocation has returned the transport error of its one
\* request.
C10_Witness ==
  \E i \in Inv :
    /\ st[i].pc = "returned" /\ st[i].from = "send"
    /\ st[i].result.err = "Transport" /\ st[i].requests = 1

\* C11: an invocation cancelled at a suspension point leaves no temporary
\* directory and no file of its own, also when it had made the directory
\* and was reading the response body.
C11_CancelRemovesTempDir ==
  \A i \in Inv :
    st[i].pc = "cancelled" =>
      /\ \A d \in DOMAIN fs.dirs : fs.dirs[d] # i
      /\ \A p \in DOMAIN fs.files : p[1] \in DOMAIN fs.dirs /\ fs.dirs[p[1]] # i

\* C11 witness: an invocation that made its directory and created the file
\* was cancelled while reading the response body.
C11_Witness ==
  \E i \in Inv :
    /\ st[i].pc = "cancelled" /\ st[i].from = "bytes" /\ st[i].made = 1

\* C12: the first text load_zipped_version parses is that of the first
\* ".json" entry of the archive, and when it is no document the call has
\* returned the malformed-body error for that text: nothing else was
\* parsed and no document is returned.
C12_NoFallbackAfterParseFailure ==
  \A i \in Inv :
    (Zipped(i) /\ st[i].parsed # <<>>) =>
      /\ \E k \in DOMAIN ArchiveOf(i) :
           /\ IsJsonName(ArchiveOf(i)[k])
           /\ \A j \in 1 .. k - 1 : ~IsJsonName(ArchiveOf(i)[j])
           /\ st[i].parsed[1] = ArchiveOf(i)[k].text
      /\ ~from_str(st[i].parsed[1]).ok =>
           /\ st[i].pc = "returned"
           /\ Len(st[i].parsed) = 1
           /\ st[i].result.kind = "Err" /\ st[i].result.err = "BadJson"
           /\ st[i].result.raw = st[i].parsed[1]

\* C12 witness: the first ".json" entry is no document, a later ".json"
\* entry is a valid one, and the call has returned the error of the first.
C12_Witness ==
  \E i \in Inv :
    /\ Zipped(i) /\ st[i].pc = "returned" /\ st[i].result.err = "BadJson"
    /\ Len(ArchiveOf(i)) = 2
    /\ IsJsonName(ArchiveOf(i)[1]) /\ ArchiveOf(i)[1].text = <<"{", "id">>
    /\ IsJsonName(ArchiveOf(i)[2]) /\ ArchiveOf(i)[2].text = <<"{", "id", "}">>
    /\ ArchiveOf(i)[2].open /\ ArchiveOf(i)[2].utf8

\* C13: entries whose names do not end with ".json" are ignored: when the
\* archive was opened, holds a ".json" entry, and every ".json" entry opens,
\* reads and parses, the call returns a document.
C13_OtherEntriesIgnored ==
  \A i \in Inv :
    (/\ Zipped(i) /\ Done(i) /\ st[i].from = "loop"
     /\ \E k \in DOMAIN ArchiveOf(i) : IsJsonName(ArchiveOf(i)[k])
     /\ \A k \in DOMAIN ArchiveOf(i) :
          IsJsonName(ArchiveOf(i)[k]) =>
            /\ ArchiveOf(i)[k].open /\ ArchiveOf(i)[k].utf8
            /\ from_str(ArchiveOf(i)[k].text).ok) =>
      st[i].pc = "returned" /\ st[i].result.kind = "Ok"

\* C14: the write handle and the read handle of the archive file are never
\* open together, and while the read handle is open the file holds the
\* whole downloaded body.
C14_WriteThenRead ==
  \A i \in Inv :
    /\ ~(st[i].wfile /\ st[i].rfile)
    /\ st[i].rfile =>
         /\ st[i].dest_path \in DOMAIN fs.files
         /\ fs.files[st[i].dest_path].full
         /\ fs.files[st[i].dest_path].data = remote[i].body

\* C14 witness: the file, holding an archive with an entry, is open for
\* reading and the archive is about to be read from it.
C14_Witness ==
  \E i \in Inv :
    /\ st[i].pc = "zipnew" /\ st[i].rfile /\ ~st[i].wfile
    /\ remote[i].body.zip /\ Len(remote[i].body.entries) > 0

\* C15: the file is named after the last path segment of the response URL,
\* or "tmp.zip" when that segment is empty, and it lies in the directory
\* the invocation made.
C15_DestPathInOwnTempDir ==
  \A i \in Inv :
    st[i].dest_path # NoPath =>
      /\ st[i].dest_path[1] = st[i].tmp_dir
      /\ st[i].tmp_dir \in DOMAIN fs.dirs /\ fs.dirs[st[i].tmp_dir] = i
      /\ LET u == st[i].file_response.url
         IN  /\ (Len(u) > 0 /\ u[Len(u)] # "") => st[i].dest_path[2] = u[Len(u)]
             /\ (Len(u) = 0 \/ u[Len(u)] = "") => st[i].dest_path[2] = "tmp.zip"

\* C15 witness: the response URL ends with an empty segment and the file was
\* created under the fixed name.
C15_Witness ==
  \E i \in Inv :
    /\ st[i].file_response.url = <<"v", "">>
    /\ st[i].dest_path = <<st[i].tmp_dir, "tmp.zip">>
    /\ st[i].dest_path \in DOMAIN fs.files

\* C16: two invocations never hold the same file path or the same
\* temporary directory, also when both derive the same file name.
C16_DistinctPaths ==
  \A i, j \in Inv :
    (i # j /\ st[i].dest_path # NoPath /\ st[j].dest_path # NoPath) =>
      /\ st[i].dest_path # st[j].dest_path
      /\ st[i].tmp_dir # st[j].tmp_dir

\* C16 witness: two invocations that derived the same file name have both
\* created their files.
C16_Witness ==
  \E i, j \in Inv :
    /\ i # j
    /\ st[i].dest_path \in DOMAIN fs.files /\ st[j].dest_path \in DOMAIN fs.files
    /\ st[i].dest_path[2] = st[j].dest_path[2]

\* C17: the steps of one invocation are in sequence: what is parsed is the
\* body of the received response, read in full; validation runs only after
\* the one parse succeeded; and a failure of the request, of the status
\* check or of the parse leaves the later steps undone.
C17_SequentialSteps ==
  \A i \in Inv :
    /\ st[i].parsed # <<>> => Received(i)
    /\ (st[i].parsed # <<>> /\ ~Zipped(i)) =>
         Len(st[i].parsed) = 1 /\ st[i].parsed[1] = TextOf(remote[i].body)
    /\ (st[i].pc = "validate" \/ st[i].validated) =>
         Len(st[i].parsed) = 1 /\ from_str(st[i].parsed[1]).ok
    /\ st[i].result.err \in {"Config", "Transport", "Status"} =>
         st[i].parsed = <<>> /\ ~st[i].validated
    /\ st[i].result.err = "BadJson" => ~st[i].validated

\* C17 witness: load_version_manifest has fetched, parsed and validated a
\* document and returned it.
C17_Witness ==
  \E i \in Inv :
    /\ st[i].op = "load_version_manifest" /\ st[i].pc = "returned"
    /\ st[i].parsed = << <<"{", "id", "}">> >> /\ st[i].validated
    /\ st[i].result = Ok({"id"})

\* C18: an invocation makes at most one directory, and only
\* load_zipped_version makes one; the only file in it is the one at the
\* invocation's destination path; every file lies in an existing directory
\* and holds nothing or the body its owner downloaded.
C18_OneDirOneFile ==
  /\ \A i \in Inv :
       /\ st[i].made <= 1
       /\ ~Zipped(i) => st[i].made = 0
       /\ \A d \in DOMAIN fs.dirs : fs.dirs[d] = i => d = st[i].tmp_dir /\ st[i].made = 1
  /\ \A p \in DOMAIN fs.files :
       /\ p[1] \in DOMAIN fs.dirs
       /\ p = st[fs.dirs[p[1]]].dest_path
       /\ \/ fs.files[p] = [data |-> EmptyBody, full |-> FALSE]
          \/ fs.files[p] = [data |-> remote[fs.dirs[p[1]]].body, full |-> TRUE]

\* C18 witness: two invocations have each written their archive into
\* their directory.
C18_Witness ==
  \E i, j \in Inv :
    /\ i # j
    /\ st[i].dest_path \in DOMAIN fs.files /\ fs.files[st[i].dest_path].full
    /\ st[j].dest_path \in DOMAIN fs.files /\ fs.files[st[j].dest_path].full
    /\ Cardinality(DOMAIN fs.files) = 2 /\ Cardinality(DOMAIN fs.dirs) = 2

\* C19: load_zipped_version makes its directory only after a response with
\* a 2xx status, and a call that ended at the request or at the status
\* check made none.
C19_TempDirOnlyAfterSuccess ==
  \A i \in Inv :
    /\ st[i].made > 0 => Received(i) /\ st[i].file_response.status \in 200 .. 299
    /\ (Done(i) /\ st[i].from \in {"send", "status"}) => st[i].made = 0

====
